---- MODULE Spec2Model ----
(***************************************************************************)
(* A model of backend/rag/vector_store.py (class VectorStore): the FAISS   *)
(* flat index, the parallel documents / metadata lists, the three          *)
(* persisted artifacts of the store directory and the operations           *)
(* __init__/_load_index, add_document, delete_document and search.         *)
(*                                                                         *)
(* Python lists are 0-based, TLA+ sequences 1-based: chunk_id and          *)
(* chunk_index keep the 0-based values the code stores, positions in the   *)
(* sequences are 1-based.  Scores are fixed-point with two decimals        *)
(* (100 = 1.0).                                                            *)
(***************************************************************************)
EXTENDS Integers, Sequences, FiniteSets, TLC

----------------------------------------------------------------------------
(* Bounds of the model *)

\* the store never holds more than MaxChunks chunks (add_document is not
\* issued past it)
MaxChunks == 4

\* at most MaxFaults exceptions are injected by the environment in one run
\* (model load failure, encode failure, I/O failure during a save)
MaxFaults == 1

\* chunk_text's default chunk_size (512) and overlap (50), scaled down so
\* that the short texts of the model split into several chunks
DefaultChunkSize == 6
DefaultOverlap == 1

\* fixed-point scale of a unit vector (Scale = 1.0 per coordinate)
Scale == 10

----------------------------------------------------------------------------
(* Inputs *)

Paths == {"A", "B"}

\* md5 input: the bytes found at file_path (1 or 2); 0 stands for "no such
\* file"
NoFile == 0

Cats == <<"c", "a", "t", "s", ".", " ", "d", "o", "g", "s">>
Cat == <<"c", "a", "t">>

Dog == <<"d", "o", "g">>

\* the add_document calls issued: file_path, content, and the bytes of the
\* file at file_path when the call hashes it.  The second and the third are
\* two files with different bytes and the same extracted text; the first and
\* the third have the same bytes and are passed different contents; the last
\* names a path where there is no file.
Ingests ==
  {[path |-> "A", content |-> Cats, bytes |-> 1],
   [path |-> "B", content |-> Cat, bytes |-> 2],
   [path |-> "A", content |-> Cat, bytes |-> 1],
   [path |-> "B", content |-> Cat, bytes |-> NoFile]}

\* the search calls issued: query, k, score_threshold (in hundredths)
Searches ==
  {[query |-> Cat, k |-> 3, t |-> 20],
   [query |-> Dog, k |-> 1, t |-> 90]}

----------------------------------------------------------------------------
(* Sequence helpers *)

Min(a, b) == IF a < b THEN a ELSE b
Max(a, b) == IF a > b THEN a ELSE b

\* Python: del s[i] for the 0-based position i
DelAt(s, i) == SubSeq(s, 1, i) \o SubSeq(s, i + 2, Len(s))

\* how Python reads a slice bound i on a sequence of n items: a negative
\* bound counts from the end, and every bound is clamped to 0 .. n
PyIndex(i, n) == IF i < 0 THEN Max(i + n, 0) ELSE Min(i, n)

\* Python slice text[start:end]
Slice(text, start, end) ==
  SubSeq(text, PyIndex(start, Len(text)) + 1, PyIndex(end, Len(text)))

----------------------------------------------------------------------------
(* chunk_text *)

IsSpace(ch) == ch = " "

RECURSIVE LStrip(_)
LStrip(s) == IF s # <<>> /\ IsSpace(Head(s)) THEN LStrip(Tail(s)) ELSE s

RECURSIVE RStrip(_)
RStrip(s) ==
  IF s # <<>> /\ IsSpace(s[Len(s)]) THEN RStrip(SubSeq(s, 1, Len(s) - 1)) ELSE s

\* a faulty variant of Strip: the first character is dropped, whatever it is
StripFirst(s) == IF s = <<>> THEN s ELSE Tail(s)

\* str.strip()
Strip(s) == RStrip(LStrip(s))

\* text.rfind(ch, start, end): the highest 0-based position in [start, end)
\* holding ch, or -1
RFind(text, ch, start, end) ==
  LET hits == {i \in PyIndex(start, Len(text)) .. (PyIndex(end, Len(text)) - 1) :
                 text[i + 1] = ch}
  IN IF hits = {} THEN -1 ELSE CHOOSE i \in hits : \A j \in hits : j <= i

\* a faulty variant of CutEnd: the window ends one position past the raw
\* boundary
CutEndPast(text, chunk_size, start) == start + chunk_size + 1

\* the end of the window starting at start: the raw boundary, or just after
\* the last sentence terminator when that lies past the window's midpoint
CutEnd(text, chunk_size, start) ==
  LET end == start + chunk_size
      sentence_end == Max(RFind(text, ".", start, end),
                          Max(RFind(text, "!", start, end),
                              RFind(text, "?", start, end)))
  IN IF end < Len(text) /\ sentence_end > start + (chunk_size \div 2)
       THEN sentence_end + 1
       ELSE end

\* the while loop of chunk_text
RECURSIVE ChunkLoop(_, _, _, _, _)
ChunkLoop(text, chunk_size, overlap, start, chunks) ==
  IF ~(start < Len(text)) THEN chunks
  ELSE LET end == CutEnd(text, chunk_size, start)
           chunk == Strip(Slice(text, start, end))
           chunks2 == IF chunk # <<>> THEN Append(chunks, chunk) ELSE chunks
           start2 == end - overlap
       IN IF start2 >= Len(text) THEN chunks2
          ELSE ChunkLoop(text, chunk_size, overlap, start2, chunks2)

chunk_text(text, chunk_size, overlap) ==
  IF Len(text) <= chunk_size THEN <<text>>
  ELSE ChunkLoop(text, chunk_size, overlap, 0, <<>>)

----------------------------------------------------------------------------
(* The encoder and the index *)

Has(text, ch) == \E i \in 1 .. Len(text) : text[i] = ch

\* SentenceTransformer.encode for one text: a deterministic, un-normalised
\* vector.  Texts about "c" and texts about "d" point in orthogonal
\* directions; the lengths differ so that normalisation matters.
Encode(text) ==
  IF Has(text, "c") /\ Has(text, "d") THEN <<3, 4>>
  ELSE IF Has(text, "c") THEN <<3, 0>>
  ELSE IF Has(text, "d") THEN <<0, 4>>
  ELSE <<4, 3>>

\* np.linalg.norm of one row
Norm(v) == CHOOSE n \in 0 .. (v[1] + v[2]) : n * n = v[1] * v[1] + v[2] * v[2]

\* embeddings / np.linalg.norm(embeddings, axis=1, keepdims=True), per row
Normalize(v) == <<(v[1] * Scale) \div Norm(v), (v[2] * Scale) \div Norm(v)>>

\* encode + normalise a batch of texts
EmbedAll(texts) == [i \in 1 .. Len(texts) |-> Normalize(Encode(texts[i]))]

\* inner product of two unit vectors, in hundredths
Dot(u, v) == u[1] * v[1] + u[2] * v[2]

\* self.index: None, or an IndexFlatIP holding vecs
NoneIndex == [none |-> TRUE, vecs |-> <<>>]
FlatIndex(vecs) == [none |-> FALSE, vecs |-> vecs]

\* index.ntotal, a missing index counting as zero vectors
NTotal(idx) == IF idx.none THEN 0 ELSE Len(idx.vecs)

\* hashlib.md5(bytes).hexdigest(): injective on the bytes of the model
Md5(bytes) == <<"md5", bytes>>

----------------------------------------------------------------------------
(* State *)

VARIABLES
  encoder,    \* self.encoder is not None (embedding_dim is set with it)
  index,      \* self.index
  documents,  \* self.documents: the chunk texts
  metadata,   \* self.metadata: one record per chunk
  disk,       \* the artifacts index.faiss, metadata.pkl, documents.pkl
  last,       \* the last completed call: its arguments and what it returned
  ingested,   \* history: the add_document calls that returned True since the
              \* last delete_document / construction
  faults,     \* number of exceptions injected so far
  pc,         \* per thread: the statement it executes next ("idle": no call)
  frame,      \* per thread: the call it is in and the locals of that call
  model_lock, \* _model_lock: the thread holding it, 0 when free
  loads,      \* number of SentenceTransformer(...) constructions so far
  calls,      \* number of calls the threads have begun
  chunker,    \* the locals of a chunk_text call executed step by step
  retrieval,  \* the locals of a retrieve_context call executed step by step
  processor   \* a RAGDocumentProcessor, _processor_lock and its callers

storeVars == <<encoder, index, documents, metadata, disk>>
threadVars == <<pc, frame, model_lock, loads, calls>>

vars == <<encoder, index, documents, metadata, disk, last, ingested, faults,
          pc, frame, model_lock, loads, calls, chunker, retrieval, processor>>

\* the variables of the retriever and of the processor
ragVars == <<retrieval, processor>>

\* the in-memory store as one value
Self == [encoder |-> encoder, index |-> index,
         documents |-> documents, metadata |-> metadata]

----------------------------------------------------------------------------
(* Persistence: _load_index, _save_index, _reset_index *)

Artifact(st, val) == [st |-> st, val |-> val]
OkArtifact(val) == Artifact("ok", val)

\* an artifact whose write raised: the file is left as it was (the open
\* failed) or truncated (the write failed after open(..., 'wb'))
FailedWrite(old, leaves, empty) ==
  IF leaves = "truncated" THEN Artifact("corrupt", empty) ELSE old

EmptyDisk ==
  [index |-> Artifact("missing", NoneIndex),
   metadata |-> Artifact("missing", <<>>),
   documents |-> Artifact("missing", <<>>)]

\* _reset_index: documents and metadata are emptied, self.index is kept
reset_index(idx) == [index |-> idx, metadata |-> <<>>, documents |-> <<>>]

\* _load_index, called by __init__ with self.index = None
load_index(d) ==
  IF d.index.st # "missing" /\ d.metadata.st # "missing" /\ d.documents.st # "missing"
    THEN IF d.index.st # "ok" THEN reset_index(NoneIndex)
         ELSE IF d.metadata.st # "ok" \/ d.documents.st # "ok"
           THEN reset_index(d.index.val)
         ELSE [index |-> d.index.val,
               metadata |-> d.metadata.val,
               documents |-> d.documents.val]
    ELSE reset_index(NoneIndex)

SaveFaults == {"save_index", "save_metadata", "save_documents"}
Leaves == {"untouched", "truncated"}

\* what faiss.write_index(None, path) does is not fixed by the source: it
\* raises before opening the file, raises after opening it, or writes a
\* placeholder that read_index turns back into None
NullWrites == {"raise_untouched", "raise_truncated", "written"}

\* a faulty variant of save_index: documents.pkl is never written
save_index_no_documents(d, idx, meta, docs, fault, leaves, nullw) ==
  [d EXCEPT !.index = OkArtifact(idx), !.metadata = OkArtifact(meta)]

\* _save_index: the three artifacts are written one after the other inside
\* one try block; an exception skips the remaining writes and is swallowed
save_index(d, idx, meta, docs, fault, leaves, nullw) ==
  LET nullFails == idx.none /\ nullw # "written"
      idxLeaves == IF fault = "save_index" THEN leaves
                   ELSE IF nullw = "raise_truncated" THEN "truncated"
                   ELSE "untouched"
  IN IF fault = "save_index" \/ nullFails
       THEN [d EXCEPT !.index = FailedWrite(@, idxLeaves, NoneIndex)]
     ELSE IF fault = "save_metadata"
       THEN [d EXCEPT !.index = OkArtifact(idx),
                      !.metadata = FailedWrite(@, leaves, <<>>)]
     ELSE IF fault = "save_documents"
       THEN [d EXCEPT !.index = OkArtifact(idx),
                      !.metadata = OkArtifact(meta),
                      !.documents = FailedWrite(@, leaves, <<>>)]
     ELSE [index |-> OkArtifact(idx),
           metadata |-> OkArtifact(meta),
           documents |-> OkArtifact(docs)]

\* the store a new VectorStore on directory d starts with
Fresh(d) ==
  [encoder |-> FALSE, index |-> load_index(d).index,
   documents |-> load_index(d).documents, metadata |-> load_index(d).metadata]

----------------------------------------------------------------------------
(* _ensure_encoder *)

\* a faulty variant of ensure_encoder: the first use always installs a new,
\* empty index
ensure_encoder_new_index(st) ==
  IF st.encoder THEN st
  ELSE [st EXCEPT !.encoder = TRUE, !.index = FlatIndex(<<>>)]

\* the store after a successful _ensure_encoder: the encoder is loaded and an
\* index is created only if there is none
ensure_encoder(st) ==
  IF st.encoder THEN st
  ELSE [st EXCEPT !.encoder = TRUE,
                  !.index = IF @.none THEN FlatIndex(<<>>) ELSE @]

\* a faulty variant of ensure_encoder_raises: self.encoder was assigned
\* before the exception
ensure_encoder_raises_assigned(st) == [st EXCEPT !.encoder = TRUE]

\* the store after an _ensure_encoder whose import or SentenceTransformer(...)
\* raised: the exception is printed and re-raised before anything is assigned
ensure_encoder_raises(st) == st

----------------------------------------------------------------------------
(* Operations.  Each returns the store and the disk it leaves, what the    *)
(* caller sees (ret: "true", "false" or "raise"; results for search) and   *)
(* hit: whether the chosen injected exception was actually reached.        *)

Faults == {"none", "load", "encode"} \cup SaveFaults

Outcome(st, d, ret, hit, results) ==
  [st |-> st, disk |-> d, ret |-> ret, hit |-> hit, results |-> results]

\* is an injected save fault reached by a save of idx
SaveHit(idx, fault, nullw) ==
  fault \in SaveFaults /\ ~(idx.none /\ nullw # "written")

\* a faulty variant of ChunkMetadata: chunk_id restarts at 0 in every call
ChunkMetadataFromZero(file_path, file_hash, ndocs, n) ==
  [i \in 1 .. n |->
     [file_path |-> file_path,
      file_hash |-> file_hash,
      chunk_id |-> i - 1,
      chunk_index |-> i - 1,
      total_chunks |-> n]]

\* the metadata records add_document appends for chunks i = 1 .. n
ChunkMetadata(file_path, file_hash, ndocs, n) ==
  [i \in 1 .. n |->
     [file_path |-> file_path,
      file_hash |-> file_hash,
      chunk_id |-> ndocs + i - 1,
      chunk_index |-> i - 1,
      total_chunks |-> n]]

\* the duplicate check: some stored chunk carries this hash
AlreadyIndexed(meta, file_hash) ==
  \E i \in 1 .. Len(meta) : meta[i].file_hash = file_hash

\* add_document(file_path, content); bytes is what open(file_path, 'rb')
\* reads (NoFile: the open raises)
add_document(st, d, file_path, content, bytes, fault, leaves) ==
  LET s1 == ensure_encoder(st)
      file_hash == Md5(bytes)
      chunks == chunk_text(content, DefaultChunkSize, DefaultOverlap)
      s2 == [s1 EXCEPT
               !.index = FlatIndex(@.vecs \o EmbedAll(chunks)),
               !.documents = @ \o chunks,
               !.metadata = @ \o ChunkMetadata(file_path, file_hash,
                                               Len(s1.documents), Len(chunks))]
  IN IF ~st.encoder /\ fault = "load"
       THEN Outcome(ensure_encoder_raises(st), d, "raise", TRUE, <<>>)
     ELSE IF bytes = NoFile THEN Outcome(s1, d, "raise", fault = "none", <<>>)
     ELSE IF AlreadyIndexed(s1.metadata, file_hash)
       THEN Outcome(s1, d, "false", fault = "none", <<>>)
     ELSE IF fault = "encode" THEN Outcome(s1, d, "raise", TRUE, <<>>)
     ELSE IF chunks = <<>> \/ s1.index.none
       THEN Outcome(s1, d, "raise", fault = "none", <<>>)
     ELSE Outcome(s2,
                  save_index(d, s2.index, s2.metadata, s2.documents,
                             fault, leaves, "written"),
                  "true", fault = "none" \/ fault \in SaveFaults, <<>>)

\* a faulty variant of ChunksToRemove: the comparison with file_path is
\* dropped
ChunksToRemoveAll(meta, file_path) == 0 .. (Len(meta) - 1)

\* 0-based positions of the chunks of file_path
ChunksToRemove(meta, file_path) ==
  {i \in 0 .. (Len(meta) - 1) : meta[i + 1].file_path = file_path}

\* for idx in sorted(chunks_to_remove, reverse=True):
\*     del self.documents[idx]; del self.metadata[idx]
\* raised: a del hit a position outside documents (IndexError); the entries
\* removed before it stay removed
RECURSIVE RemoveChunks(_, _, _)
RemoveChunks(docs, meta, idxs) ==
  IF idxs = {} THEN [documents |-> docs, metadata |-> meta, raised |-> FALSE]
  ELSE LET idx == CHOOSE i \in idxs : \A j \in idxs : j <= i
       IN IF idx >= Len(docs)
            THEN [documents |-> docs, metadata |-> meta, raised |-> TRUE]
            ELSE RemoveChunks(DelAt(docs, idx), DelAt(meta, idx), idxs \ {idx})

\* delete_document(file_path): any exception after the removal is caught and
\* the call returns False
delete_document(st, d, file_path, fault, leaves, nullw) ==
  LET chunks_to_remove == ChunksToRemove(st.metadata, file_path)
      removed == RemoveChunks(st.documents, st.metadata, chunks_to_remove)
      s1 == [st EXCEPT !.documents = removed.documents,
                       !.metadata = removed.metadata]
      s2 == ensure_encoder(s1)
      s3 == IF s1.documents # <<>>
              THEN [s2 EXCEPT !.index = FlatIndex(EmbedAll(s2.documents))]
              ELSE [s1 EXCEPT !.index = NoneIndex,
                              !.documents = reset_index(NoneIndex).documents,
                              !.metadata = reset_index(NoneIndex).metadata]
  IN IF chunks_to_remove = {} THEN Outcome(st, d, "false", fault = "none", <<>>)
     ELSE IF removed.raised THEN Outcome(s1, d, "false", fault = "none", <<>>)
     ELSE IF s1.documents # <<>> /\ ~s1.encoder /\ fault = "load"
       THEN Outcome(ensure_encoder_raises(s1), d, "false", TRUE, <<>>)
     ELSE IF s1.documents # <<>> /\ fault = "encode"
       THEN Outcome(s2, d, "false", TRUE, <<>>)
     ELSE Outcome(s3,
                  save_index(d, s3.index, s3.metadata, s3.documents,
                             fault, leaves, nullw),
                  "true",
                  fault = "none" \/ SaveHit(s3.index, fault, nullw), <<>>)

\* a variant of TorchBound: the module imports torch
TorchImported == TRUE

\* lines 1-10 import no torch, and the imports inside _configure_torch and
\* _ensure_encoder are local: the name torch is unbound in search
TorchBound == FALSE

NegInf == 0 - (Scale * Scale + 1)

\* IndexFlatIP.search(q, n): the n best (score, 0-based position) pairs by
\* inner product, best first, ties by position; missing neighbours are -1
RECURSIVE FaissSearch(_, _, _, _)
FaissSearch(vecs, q, n, taken) ==
  IF n = 0 THEN <<>>
  ELSE LET rest == (1 .. Len(vecs)) \ taken
       IN IF rest = {}
            THEN <<[score |-> NegInf, idx |-> -1]>>
                 \o FaissSearch(vecs, q, n - 1, taken)
            ELSE LET best == CHOOSE i \in rest : \A j \in rest :
                               \/ Dot(q, vecs[i]) > Dot(q, vecs[j])
                               \/ Dot(q, vecs[i]) = Dot(q, vecs[j]) /\ i <= j
                 IN <<[score |-> Dot(q, vecs[best]), idx |-> best - 1]>>
                    \o FaissSearch(vecs, q, n - 1, taken \cup {best})

\* a faulty variant of the result loop: the comparison with score_threshold
\* is dropped
CollectResultsUnfiltered(hits, score_threshold, docs, meta) ==
  LET inside == SelectSeq(hits, LAMBDA h : h.idx >= 0 /\ h.idx < Len(docs)
                                                      /\ h.idx < Len(meta))
  IN [raised |-> FALSE,
      results |-> [i \in 1 .. Len(inside) |->
                     [content |-> docs[inside[i].idx + 1],
                      score |-> inside[i].score,
                      metadata |-> meta[inside[i].idx + 1]]]]

\* the loop over zip(scores[0], indices[0]): hits below the threshold are
\* skipped; a position outside documents raises IndexError, which the except
\* clause of search turns into []
RECURSIVE CollectResults(_, _, _, _)
CollectResults(hits, score_threshold, docs, meta) ==
  IF hits = <<>> THEN [raised |-> FALSE, results |-> <<>>]
  ELSE LET h == Head(hits)
           rest == CollectResults(Tail(hits), score_threshold, docs, meta)
           pos == IF h.idx < 0 THEN Len(docs) + h.idx + 1 ELSE h.idx + 1
       IN IF h.score < score_threshold THEN rest
          ELSE IF pos < 1 \/ pos > Len(docs) \/ pos > Len(meta)
            THEN [raised |-> TRUE, results |-> <<>>]
          ELSE [raised |-> rest.raised,
                results |-> <<[content |-> docs[pos], score |-> h.score,
                               metadata |-> meta[pos]]>> \o rest.results]

\* search(query, k, score_threshold): every exception is caught and gives []
search(st, query, k, score_threshold, fault) ==
  LET s1 == ensure_encoder(st)
      q == Normalize(Encode(query))
      hits == FaissSearch(s1.index.vecs, q, Min(k, Len(s1.documents)), {})
      got == CollectResults(hits, score_threshold, s1.documents, s1.metadata)
  IN IF ~st.encoder /\ fault = "load"
       THEN Outcome(ensure_encoder_raises(st), <<>>, "ok", TRUE, <<>>)
     ELSE IF s1.documents = <<>> THEN Outcome(s1, <<>>, "ok", fault = "none", <<>>)
     ELSE IF ~TorchBound THEN Outcome(s1, <<>>, "ok", fault = "none", <<>>)
     ELSE IF fault = "encode" THEN Outcome(s1, <<>>, "ok", TRUE, <<>>)
     ELSE IF s1.index.none \/ got.raised
       THEN Outcome(s1, <<>>, "ok", fault = "none", <<>>)
     ELSE Outcome(s1, <<>>, "ok", fault = "none", got.results)

----------------------------------------------------------------------------
(* Actions *)

\* the record of a completed call: arg is the Ingests / Searches entry or
\* the path it was called with
Call(op, arg, fault, ret, results) ==
  [op |-> op, arg |-> arg, fault |-> fault, ret |-> ret, results |-> results]

NoArg == [path |-> ""]

Install(st) ==
  /\ encoder' = st.encoder
  /\ index' = st.index
  /\ documents' = st.documents
  /\ metadata' = st.metadata

Inject(fault) ==
  /\ fault # "none" => faults < MaxFaults
  /\ faults' = IF fault = "none" THEN faults ELSE faults + 1

Threads == {1, 2}

\* the locals of a thread that is in no call
NoFrame ==
  [op |-> "none", arg |-> NoArg, next |-> "", chunks |-> <<>>, vecs |-> <<>>,
   i |-> 0, todo |-> <<>>, hits |-> <<>>, results |-> <<>>,
   raised |-> "", ret |-> ""]

\* no thread is in a call
NoThreads ==
  /\ pc = [t \in Threads |-> "idle"]
  /\ frame = [t \in Threads |-> NoFrame]
  /\ model_lock = 0
  /\ loads = 0
  /\ calls = 0

\* no chunk_text call is being stepped through
NoChunker ==
  [text |-> <<>>, chunk_size |-> 0, overlap |-> 0, start |-> 0, end |-> 0,
   chunks |-> <<>>, spans |-> <<>>, pc |-> "none", iterations |-> 0]

\* no retrieve_context call is being stepped through
NoRetrieval ==
  [results |-> <<>>, max_context_length |-> 0, i |-> 0,
   context_parts |-> <<>>, sources |-> <<>>, current_length |-> 0,
   context |-> <<>>, num_chunks |-> 0, pc |-> "none"]

\* a RAGDocumentProcessor just constructed: nothing initialised, no caller
NoProcessor ==
  [initialized |-> FALSE, vector_store |-> FALSE, retriever |-> FALSE,
   lock |-> 0,
   pc |-> [t \in Threads |-> "idle"],
   stack |-> [t \in Threads |-> <<>>],
   action |-> [t \in Threads |-> "none"],
   runs |-> 0]

NoRag == retrieval = NoRetrieval /\ processor = NoProcessor

\* VectorStore(store_dir) on a new store directory
Init ==
  /\ encoder = FALSE
  /\ index = NoneIndex
  /\ documents = <<>>
  /\ metadata = <<>>
  /\ disk = EmptyDisk
  /\ last = Call("new", NoArg, "none", "ok", <<>>)
  /\ ingested = {}
  /\ faults = 0
  /\ NoThreads
  /\ chunker = NoChunker
  /\ NoRag

\* the process ends and a new VectorStore is constructed on the directory
New ==
  LET loaded == load_index(disk)
  IN /\ encoder' = FALSE
     /\ index' = loaded.index
     /\ documents' = loaded.documents
     /\ metadata' = loaded.metadata
     /\ last' = Call("new", NoArg, "none", "ok", <<>>)
     /\ ingested' = {}
     /\ UNCHANGED <<disk, faults, threadVars, chunker, ragVars>>

AddDocument ==
  \E a \in Ingests, fault \in Faults, leaves \in Leaves :
    LET out == add_document(Self, disk, a.path, a.content, a.bytes, fault, leaves)
    IN /\ fault \in SaveFaults \/ leaves = "untouched"
       /\ Inject(fault)
       /\ Len(documents)
            + Len(chunk_text(a.content, DefaultChunkSize, DefaultOverlap))
            <= MaxChunks
       /\ out.hit
       /\ Install(out.st)
       /\ disk' = out.disk
       /\ last' = Call("add", a, fault, out.ret, <<>>)
       /\ ingested' = IF out.ret = "true" THEN ingested \cup {a} ELSE ingested
       /\ UNCHANGED <<threadVars, chunker, ragVars>>

DeleteDocument ==
  \E p \in Paths, fault \in Faults, leaves \in Leaves, nullw \in NullWrites :
    LET out == delete_document(Self, disk, p, fault, leaves, nullw)
    IN /\ fault \in SaveFaults \/ leaves = "untouched"
       /\ Inject(fault)
       /\ out.hit
       /\ Install(out.st)
       /\ disk' = out.disk
       /\ last' = Call("delete", [path |-> p], fault, out.ret, <<>>)
       /\ ingested' = IF out.st.documents # documents THEN {} ELSE ingested
       /\ UNCHANGED <<threadVars, chunker, ragVars>>

Search ==
  \E s \in Searches, fault \in {"none", "load", "encode"} :
    LET out == search(Self, s.query, s.k, s.t, fault)
    IN /\ Inject(fault)
       /\ out.hit
       /\ Install(out.st)
       /\ last' = Call("search", s, fault, "ok", out.results)
       /\ UNCHANGED <<disk, ingested, threadVars, chunker, ragVars>>

Next == New \/ AddDocument \/ DeleteDocument \/ Search

Spec == Init /\ [][Next]_vars

----------------------------------------------------------------------------
(* Threads.  Two threads call add_document, delete_document and search on  *)
(* one VectorStore; a step is one statement of the method, so the threads  *)
(* interleave between statements.  No exception is injected here: the      *)
(* exceptions are those the interleavings themselves produce.              *)

\* at most MaxCalls calls are begun in one run
MaxCalls == 2

Song == <<"s", "o", "n", "g">>

\* the calls the threads issue
ThreadCalls ==
  {[op |-> "add", arg |-> [path |-> "A", content |-> Song, bytes |-> 1]],
   [op |-> "delete", arg |-> [path |-> "B"]],
   [op |-> "delete", arg |-> [path |-> "A"]],
   [op |-> "search", arg |-> [query |-> Cat, k |-> 3, t |-> 20]]}

\* the directory after add_document("B", "cat") on a new store
SeededDisk ==
  add_document(Fresh(EmptyDisk), EmptyDisk, "B", Cat, 2, "none", "untouched").disk

Goto(t, label) == pc' = [pc EXCEPT ![t] = label]

\* the call of thread t returns ret (or raises, ret = "raise")
Return(t, ret, results, raised) ==
  /\ pc' = [pc EXCEPT ![t] = "idle"]
  /\ frame' = [frame EXCEPT ![t].ret = ret, ![t].results = results,
                            ![t].raised = raised]

NotStore == UNCHANGED <<last, ingested, faults, chunker, ragVars>>

\* a faulty variant of encoder_is_none: the checks always succeed
encoder_not_checked(enc) == TRUE

\* the condition of both checks of _ensure_encoder
encoder_is_none(enc) == ~enc

\* a thread enters a method; add_document and search start with
\* _ensure_encoder, delete_document with the scan of metadata
Begin(t) ==
  \E c \in ThreadCalls :
    /\ pc[t] = "idle"
    /\ calls < MaxCalls
    /\ calls' = calls + 1
    /\ frame' = [frame EXCEPT ![t] =
                   [NoFrame EXCEPT !.op = c.op, !.arg = c.arg,
                                   !.next = IF c.op = "add" THEN "add_hash"
                                            ELSE "search_len"]]
    /\ Goto(t, IF c.op = "delete" THEN "del_collect" ELSE "ens_check")
    /\ UNCHANGED <<storeVars, model_lock, loads>>
    /\ NotStore

\* l.77: if self.encoder is None
EnsCheck(t) ==
  /\ pc[t] = "ens_check"
  /\ Goto(t, IF encoder_is_none(encoder) THEN "ens_lock" ELSE frame[t].next)
  /\ UNCHANGED <<storeVars, frame, model_lock, loads, calls>>
  /\ NotStore

\* l.78: with _model_lock
EnsLock(t) ==
  /\ pc[t] = "ens_lock"
  /\ model_lock = 0
  /\ model_lock' = t
  /\ Goto(t, "ens_check2")
  /\ UNCHANGED <<storeVars, frame, loads, calls>>
  /\ NotStore

\* l.79: the second check, under the lock
EnsCheck2(t) ==
  /\ pc[t] = "ens_check2"
  /\ IF encoder_is_none(encoder)
       THEN Goto(t, "ens_load") /\ UNCHANGED model_lock
       ELSE Goto(t, frame[t].next) /\ model_lock' = 0
  /\ UNCHANGED <<storeVars, frame, loads, calls>>
  /\ NotStore

\* l.88-89: self.encoder = SentenceTransformer(...); self.embedding_dim = ...
EnsLoad(t) ==
  /\ pc[t] = "ens_load"
  /\ encoder' = TRUE
  /\ loads' = loads + 1
  /\ Goto(t, "ens_index")
  /\ UNCHANGED <<index, documents, metadata, disk, frame, model_lock, calls>>
  /\ NotStore

\* l.92-93: if self.index is None: self.index = faiss.IndexFlatIP(...); the
\* with block ends
EnsIndex(t) ==
  /\ pc[t] = "ens_index"
  /\ index' = IF index.none THEN FlatIndex(<<>>) ELSE index
  /\ model_lock' = 0
  /\ Goto(t, frame[t].next)
  /\ UNCHANGED <<encoder, documents, metadata, disk, frame, loads, calls>>
  /\ NotStore

\* l.218-234: the hash, the duplicate check, chunking and encoding
AddHash(t) ==
  /\ pc[t] = "add_hash"
  /\ LET a == frame[t].arg
         chunks == chunk_text(a.content, DefaultChunkSize, DefaultOverlap)
     IN IF AlreadyIndexed(metadata, Md5(a.bytes))
          THEN Return(t, "false", <<>>, "")
          ELSE /\ Goto(t, "add_index")
               /\ frame' = [frame EXCEPT ![t].chunks = chunks,
                                         ![t].vecs = EmbedAll(chunks),
                                         ![t].i = 1]
  /\ UNCHANGED <<storeVars, model_lock, loads, calls>>
  /\ NotStore

\* l.237: self.index.add(embeddings)
AddIndex(t) ==
  /\ pc[t] = "add_index"
  /\ IF index.none
       THEN Return(t, "raise", <<>>, "AttributeError") /\ UNCHANGED index
       ELSE /\ index' = FlatIndex(index.vecs \o frame[t].vecs)
            /\ Goto(t, "add_doc")
            /\ UNCHANGED frame
  /\ UNCHANGED <<encoder, documents, metadata, disk, model_lock, loads, calls>>
  /\ NotStore

\* l.241: self.documents.append(chunk)
AddDoc(t) ==
  /\ pc[t] = "add_doc"
  /\ documents' = Append(documents, frame[t].chunks[frame[t].i])
  /\ Goto(t, "add_meta")
  /\ UNCHANGED <<encoder, index, metadata, disk, frame, model_lock, loads, calls>>
  /\ NotStore

\* l.242-250: chunk_id is len(self.documents) - 1 at this moment
AddMeta(t) ==
  /\ pc[t] = "add_meta"
  /\ LET f == frame[t]
         n == Len(f.chunks)
     IN /\ metadata' = Append(metadata,
                               ChunkMetadata(f.arg.path, Md5(f.arg.bytes),
                                             Len(documents) - f.i, n)[f.i])
        /\ frame' = [frame EXCEPT ![t].i = f.i + 1]
        /\ Goto(t, IF f.i = n THEN "save_index" ELSE "add_doc")
  /\ UNCHANGED <<encoder, index, documents, disk, model_lock, loads, calls>>
  /\ NotStore

\* l.138: faiss.write_index(self.index, ...); an exception ends _save_index,
\* which swallows it, and the method returns True
SaveIndex(t) ==
  /\ pc[t] = "save_index"
  /\ \E nullw \in NullWrites :
       IF index.none /\ nullw # "written"
         THEN /\ disk' = [disk EXCEPT !.index =
                            FailedWrite(@, IF nullw = "raise_truncated"
                                             THEN "truncated" ELSE "untouched",
                                        NoneIndex)]
              /\ Return(t, "true", <<>>, "")
         ELSE /\ nullw = "written"
              /\ disk' = [disk EXCEPT !.index = OkArtifact(index)]
              /\ Goto(t, "save_metadata")
              /\ UNCHANGED frame
  /\ UNCHANGED <<encoder, index, documents, metadata, model_lock, loads, calls>>
  /\ NotStore

\* l.141-142: pickle.dump(self.metadata, f)
SaveMetadata(t) ==
  /\ pc[t] = "save_metadata"
  /\ disk' = [disk EXCEPT !.metadata = OkArtifact(metadata)]
  /\ Goto(t, "save_documents")
  /\ UNCHANGED <<encoder, index, documents, metadata, frame, model_lock, loads, calls>>
  /\ NotStore

\* l.145-146: pickle.dump(self.documents, f); the method returns True
SaveDocuments(t) ==
  /\ pc[t] = "save_documents"
  /\ disk' = [disk EXCEPT !.documents = OkArtifact(documents)]
  /\ Return(t, "true", <<>>, "")
  /\ UNCHANGED <<encoder, index, documents, metadata, model_lock, loads, calls>>
  /\ NotStore

\* sorted(chunks_to_remove, reverse=True)
RECURSIVE SortedReverse(_)
SortedReverse(idxs) ==
  IF idxs = {} THEN <<>>
  ELSE LET idx == CHOOSE i \in idxs : \A j \in idxs : j <= i
       IN <<idx>> \o SortedReverse(idxs \ {idx})

\* l.326-333: the scan of metadata; False when no chunk carries the path
DelCollect(t) ==
  /\ pc[t] = "del_collect"
  /\ LET chunks_to_remove == ChunksToRemove(metadata, frame[t].arg.path)
     IN IF chunks_to_remove = {}
          THEN Return(t, "false", <<>>, "")
          ELSE /\ frame' = [frame EXCEPT
                              ![t].todo = SortedReverse(chunks_to_remove)]
               /\ Goto(t, "del_doc")
  /\ UNCHANGED <<storeVars, model_lock, loads, calls>>
  /\ NotStore

\* l.337: del self.documents[idx]; an IndexError is caught at l.363
DelDoc(t) ==
  /\ pc[t] = "del_doc"
  /\ LET idx == Head(frame[t].todo)
     IN IF idx >= Len(documents)
          THEN Return(t, "false", <<>>, "IndexError") /\ UNCHANGED documents
          ELSE /\ documents' = DelAt(documents, idx)
               /\ Goto(t, "del_meta")
               /\ UNCHANGED frame
  /\ UNCHANGED <<encoder, index, metadata, disk, model_lock, loads, calls>>
  /\ NotStore

\* l.338: del self.metadata[idx]
DelMeta(t) ==
  /\ pc[t] = "del_meta"
  /\ LET idx == Head(frame[t].todo)
         rest == Tail(frame[t].todo)
     IN IF idx >= Len(metadata)
          THEN Return(t, "false", <<>>, "IndexError") /\ UNCHANGED metadata
          ELSE /\ metadata' = DelAt(metadata, idx)
               /\ frame' = [frame EXCEPT ![t].todo = rest]
               /\ Goto(t, IF rest = <<>> THEN "del_branch" ELSE "del_doc")
  /\ UNCHANGED <<encoder, index, documents, disk, model_lock, loads, calls>>
  /\ NotStore

\* l.341: if self.documents; the rebuild starts with _ensure_encoder
DelBranch(t) ==
  /\ pc[t] = "del_branch"
  /\ IF documents # <<>>
       THEN /\ frame' = [frame EXCEPT ![t].next = "del_encode"]
            /\ Goto(t, "ens_check")
       ELSE Goto(t, "del_none") /\ UNCHANGED frame
  /\ UNCHANGED <<storeVars, model_lock, loads, calls>>
  /\ NotStore

\* l.346-347: the embeddings of the documents as they are now
DelEncode(t) ==
  /\ pc[t] = "del_encode"
  /\ frame' = [frame EXCEPT ![t].vecs = EmbedAll(documents)]
  /\ Goto(t, "del_new_index")
  /\ UNCHANGED <<storeVars, model_lock, loads, calls>>
  /\ NotStore

\* l.350: self.index = faiss.IndexFlatIP(self.embedding_dim)
DelNewIndex(t) ==
  /\ pc[t] = "del_new_index"
  /\ index' = FlatIndex(<<>>)
  /\ Goto(t, "del_add")
  /\ UNCHANGED <<encoder, documents, metadata, disk, frame, model_lock, loads, calls>>
  /\ NotStore

\* l.351: self.index.add(embeddings)
DelAdd(t) ==
  /\ pc[t] = "del_add"
  /\ IF index.none
       THEN Return(t, "false", <<>>, "AttributeError") /\ UNCHANGED index
       ELSE /\ index' = FlatIndex(index.vecs \o frame[t].vecs)
            /\ Goto(t, "save_index")
            /\ UNCHANGED frame
  /\ UNCHANGED <<encoder, documents, metadata, disk, model_lock, loads, calls>>
  /\ NotStore

\* l.354: self.index = None
DelNone(t) ==
  /\ pc[t] = "del_none"
  /\ index' = NoneIndex
  /\ Goto(t, "del_reset")
  /\ UNCHANGED <<encoder, documents, metadata, disk, frame, model_lock, loads, calls>>
  /\ NotStore

\* l.355: self._reset_index()
DelReset(t) ==
  /\ pc[t] = "del_reset"
  /\ documents' = reset_index(index).documents
  /\ metadata' = reset_index(index).metadata
  /\ Goto(t, "save_index")
  /\ UNCHANGED <<encoder, index, disk, frame, model_lock, loads, calls>>
  /\ NotStore

\* l.274-275: if len(self.documents) == 0: return []
SearchLen(t) ==
  /\ pc[t] = "search_len"
  /\ IF Len(documents) = 0
       THEN Return(t, "ok", <<>>, "")
       ELSE Goto(t, "search_torch") /\ UNCHANGED frame
  /\ UNCHANGED <<storeVars, model_lock, loads, calls>>
  /\ NotStore

\* l.278-294, every exception giving [] (l.295-297):
\*   search_torch  l.278-280  torch.no_grad() and the query embedding
\*   search_index  l.283      self.index.search(q, min(k, len(self.documents)))
\*   search_hit    l.286-292  one iteration of the result loop
SearchBody(t) ==
  /\ pc[t] \in {"search_torch", "search_index", "search_hit"}
  /\ LET f == frame[t]
         n == Min(f.arg.k, Len(documents))
         one == CollectResults(<<Head(f.hits)>>, f.arg.t, documents, metadata)
     IN CASE pc[t] = "search_torch" ->
               IF TorchBound
                 THEN Goto(t, "search_index") /\ UNCHANGED frame
                 ELSE Return(t, "ok", <<>>, "NameError")
          [] pc[t] = "search_index" ->
               IF index.none THEN Return(t, "ok", <<>>, "AttributeError")
               ELSE IF n = 0 THEN Return(t, "ok", <<>>, "AssertionError")
               ELSE /\ frame' = [frame EXCEPT ![t].hits =
                                   FaissSearch(index.vecs,
                                               Normalize(Encode(f.arg.query)),
                                               n, {})]
                    /\ Goto(t, "search_hit")
          [] pc[t] = "search_hit" ->
               IF f.hits = <<>> THEN Return(t, "ok", f.results, "")
               ELSE IF one.raised THEN Return(t, "ok", <<>>, "IndexError")
               ELSE /\ frame' = [frame EXCEPT
                                   ![t].hits = Tail(f.hits),
                                   ![t].results = f.results \o one.results]
                    /\ UNCHANGED pc
  /\ UNCHANGED <<storeVars, model_lock, loads, calls>>
  /\ NotStore

\* a VectorStore constructed on a new directory, or on the directory an
\* earlier process left after ingesting one document
ThreadInit ==
  /\ \E d \in {EmptyDisk, SeededDisk} :
       /\ disk = d
       /\ encoder = Fresh(d).encoder
       /\ index = Fresh(d).index
       /\ documents = Fresh(d).documents
       /\ metadata = Fresh(d).metadata
  /\ last = Call("new", NoArg, "none", "ok", <<>>)
  /\ ingested = {}
  /\ faults = 0
  /\ NoThreads
  /\ chunker = NoChunker
  /\ NoRag

ThreadNext ==
  \E t \in Threads :
    \/ Begin(t)
    \/ EnsCheck(t) \/ EnsLock(t) \/ EnsCheck2(t) \/ EnsLoad(t) \/ EnsIndex(t)
    \/ AddHash(t) \/ AddIndex(t) \/ AddDoc(t) \/ AddMeta(t)
    \/ SaveIndex(t) \/ SaveMetadata(t) \/ SaveDocuments(t)
    \/ DelCollect(t) \/ DelDoc(t) \/ DelMeta(t) \/ DelBranch(t)
    \/ DelEncode(t) \/ DelNewIndex(t) \/ DelAdd(t) \/ DelNone(t) \/ DelReset(t)
    \/ SearchLen(t) \/ SearchBody(t)

SpecThreads == ThreadInit /\ [][ThreadNext]_vars

----------------------------------------------------------------------------
(* chunk_text step by step: one call per behaviour, its arguments drawn    *)
(* from bounded sets, one step per half of a loop iteration.  spans keeps, *)
(* for every chunk appended, the window it was cut from and the positions  *)
(* of the text the stripped chunk occupies (0-based, half-open).           *)

\* texts of at most MaxLen characters
MaxLen == 8

\* chunk_size ranges over 1 .. MaxChunkSize, overlap over 0 .. chunk_size - 1
MaxChunkSize == 7

\* a text holds at most MaxMarks characters that are not letters
MaxMarks == 2

\* the loop of one call is followed for at most MaxIterations iterations
MaxIterations == 12

Alphabet == {"a", ".", " "}

Texts ==
  UNION {{t \in [1 .. n -> Alphabet] :
            Cardinality({i \in 1 .. n : t[i] # "a"}) <= MaxMarks} :
         n \in 0 .. MaxLen}

\* l.170-174: the call; a text that fits is returned whole
ChunkInit ==
  /\ \E t \in Texts, cs \in 1 .. MaxChunkSize :
       \E ov \in 0 .. (cs - 1) :
         chunker = IF Len(t) <= cs
                     THEN [NoChunker EXCEPT
                             !.text = t, !.chunk_size = cs, !.overlap = ov,
                             !.chunks = <<t>>,
                             !.spans = <<[start |-> 0, end |-> Len(t),
                                          from |-> 0, to |-> Len(t)]>>,
                             !.pc = "returned"]
                     ELSE [NoChunker EXCEPT
                             !.text = t, !.chunk_size = cs, !.overlap = ov,
                             !.pc = "while"]
  /\ encoder = FALSE
  /\ index = NoneIndex
  /\ documents = <<>>
  /\ metadata = <<>>
  /\ disk = EmptyDisk
  /\ last = Call("new", NoArg, "none", "ok", <<>>)
  /\ ingested = {}
  /\ faults = 0
  /\ NoThreads
  /\ NoRag

\* l.176-189: the loop test and the choice of the window end
ChunkWindow ==
  /\ chunker.pc = "while"
  /\ chunker.iterations < MaxIterations
  /\ chunker' =
       IF chunker.start < Len(chunker.text)
         THEN [chunker EXCEPT
                 !.end = CutEnd(chunker.text, chunker.chunk_size, chunker.start),
                 !.pc = "cut"]
         ELSE [chunker EXCEPT !.pc = "returned"]
  /\ UNCHANGED <<storeVars, last, ingested, faults, threadVars, ragVars>>

\* l.191-198: the chunk is stripped and appended unless empty, the window
\* moves to end - overlap, and the loop ends when that is past the text
ChunkAppend ==
  /\ chunker.pc = "cut"
  /\ LET c == chunker
         raw == Slice(c.text, c.start, c.end)
         chunk == Strip(raw)
         from == PyIndex(c.start, Len(c.text)) + Len(raw) - Len(LStrip(raw))
         start2 == c.end - c.overlap
     IN chunker' =
          [c EXCEPT
             !.chunks = IF chunk # <<>> THEN Append(@, chunk) ELSE @,
             !.spans = IF chunk # <<>>
                         THEN Append(@, [start |-> c.start, end |-> c.end,
                                         from |-> from,
                                         to |-> from + Len(chunk)])
                         ELSE @,
             !.start = start2,
             !.iterations = @ + 1,
             !.pc = IF start2 >= Len(c.text) THEN "returned" ELSE "while"]
  /\ UNCHANGED <<storeVars, last, ingested, faults, threadVars, ragVars>>

ChunkNext == ChunkWindow \/ ChunkAppend

SpecChunk == ChunkInit /\ [][ChunkNext]_vars

----------------------------------------------------------------------------
(* RAGRetriever.retrieve_context step by step (src/backend/rag/retriever.py)*)
(* one call per behaviour.  The retriever is given its vector store by the *)
(* caller (l.9-16), so the list that search hands back ranges over the     *)
(* lists a search may return: at most max_chunks results, ranked by score, *)
(* every score above the threshold 0.2 that l.31 passes.                   *)

\* search returns at most MaxResults results (max_chunks)
MaxResults == 3

\* a chunk holds 1 .. MaxContent characters
MaxContent == 3

\* max_context_length ranges over 0 .. MaxBudget
MaxBudget == 16

\* the text of a chunk of n characters
Content(n) == [k \in 1 .. n |-> "a"]

\* the metadata of a chunk as add_document writes it, and a dict without
\* the keys retrieve_context reads
Metadatas ==
  {[file_path |-> "A", chunk_index |-> 0],
   [file_path |-> "B", chunk_index |-> 1],
   [chunk_id |-> 0]}

\* the score of the result at 0-based rank i, in hundredths
Score(i) == 100 - 10 * i

\* the result lists of n results
ResultLists(n) ==
  {[i \in 1 .. n |->
      [content |-> Content(ls[i]), score |-> Score(i - 1),
       metadata |-> ms[i]]] :
     ls \in [1 .. n -> 1 .. MaxContent], ms \in [1 .. n -> Metadatas]}

\* str(n) for n >= 0
RECURSIVE Digits(_)
Digits(n) ==
  LET d == <<"0", "1", "2", "3", "4", "5", "6", "7", "8", "9">>[(n % 10) + 1]
  IN IF n < 10 THEN <<d>> ELSE Append(Digits(n \div 10), d)

\* l.54: f"[Document {i+1}] {chunk_content}"
DocumentBlock(i, chunk_content) ==
  <<"[", "D", "o", "c", "u", "m", "e", "n", "t", " ">> \o Digits(i + 1)
    \o <<"]", " ">> \o chunk_content

\* l.66: '\n\n'.join(context_parts)
RECURSIVE Join(_)
Join(context_parts) ==
  IF context_parts = <<>> THEN <<>>
  ELSE IF Len(context_parts) = 1 THEN context_parts[1]
  ELSE context_parts[1] \o <<"\n", "\n">> \o Join(Tail(context_parts))

\* the break taken for every chunk that does not fit, the first included
BreaksOnFirst(current_length, chunk_content, max_context_length, context_parts) ==
  current_length + Len(chunk_content) > max_context_length

\* l.51: the chunk does not fit and is not the first
Breaks(current_length, chunk_content, max_context_length, context_parts) ==
  /\ current_length + Len(chunk_content) > max_context_length
  /\ context_parts # <<>>

\* dict.get(key, default)
Get(dict, key, default) ==
  IF key \in DOMAIN dict THEN dict[key] ELSE default

\* a source record that carries the rank instead of the chunk's own index
SourceInfoByRank(i, result) ==
  [file_path |-> Get(result.metadata, "file_path", "Unknown"),
   chunk_index |-> i,
   score |-> result.score]

\* l.58-62: the source record of an included chunk
SourceInfo(i, result) ==
  [file_path |-> Get(result.metadata, "file_path", "Unknown"),
   chunk_index |-> Get(result.metadata, "chunk_index", 0),
   score |-> result.score]

\* l.31: the call; results is what search returned
RetrieveInit ==
  /\ \E n \in 0 .. MaxResults, b \in 0 .. MaxBudget :
       \E rs \in ResultLists(n) :
         retrieval = [NoRetrieval EXCEPT
                        !.results = rs, !.max_context_length = b,
                        !.pc = "results"]
  /\ processor = NoProcessor
  /\ chunker = NoChunker
  /\ encoder = FALSE
  /\ index = NoneIndex
  /\ documents = <<>>
  /\ metadata = <<>>
  /\ disk = EmptyDisk
  /\ last = Call("new", NoArg, "none", "ok", <<>>)
  /\ ingested = {}
  /\ faults = 0
  /\ NoThreads

NotRetrieval ==
  UNCHANGED <<storeVars, last, ingested, faults, threadVars, chunker,
              processor>>

\* l.33-44: no result gives the empty context; otherwise the loop starts
RetrieveResults ==
  /\ retrieval.pc = "results"
  /\ retrieval' =
       IF retrieval.results = <<>>
         THEN [retrieval EXCEPT !.context = <<>>, !.sources = <<>>,
                                !.num_chunks = 0, !.pc = "returned"]
         ELSE [retrieval EXCEPT !.context_parts = <<>>, !.sources = <<>>,
                                !.current_length = 0, !.i = 0, !.pc = "for"]
  /\ NotRetrieval

\* l.46-64: one iteration: break, or include the chunk and its source
RetrieveChunk ==
  /\ retrieval.pc = "for"
  /\ retrieval.i < Len(retrieval.results)
  /\ LET r == retrieval
         result == r.results[r.i + 1]
     IN retrieval' =
          IF Breaks(r.current_length, result.content, r.max_context_length,
                    r.context_parts)
            THEN [r EXCEPT !.pc = "join"]
            ELSE [r EXCEPT
                    !.context_parts =
                       Append(@, DocumentBlock(r.i, result.content)),
                    !.current_length = @ + Len(result.content),
                    !.sources = Append(@, SourceInfo(r.i, result)),
                    !.i = @ + 1]
  /\ NotRetrieval

\* l.66-74: the parts are joined and the outcome returned
RetrieveJoin ==
  /\ \/ retrieval.pc = "join"
     \/ retrieval.pc = "for" /\ retrieval.i = Len(retrieval.results)
  /\ retrieval' =
       [retrieval EXCEPT !.context = Join(retrieval.context_parts),
                         !.num_chunks = Len(retrieval.context_parts),
                         !.pc = "returned"]
  /\ NotRetrieval

RetrieveNext == RetrieveResults \/ RetrieveChunk \/ RetrieveJoin

SpecRetrieve == RetrieveInit /\ [][RetrieveNext]_vars

----------------------------------------------------------------------------
(* RAGDocumentProcessor (src/backend/tools/doc_tools/rag_processor.py): the *)
(* lazy initialisation behind run, one statement per step, for two callers *)
(* of one processor.  _processor_lock is a threading.Lock, not reentrant:  *)
(* lock holds the thread that owns it, 0 when free.  stack holds, for each  *)
(* thread, the statements to come back to when the method or property it   *)
(* is in returns.                                                          *)

\* the threads call run at most MaxRuns times in all
MaxRuns == 3

\* l.75-86: the actions run dispatches
Actions == {"ingest", "query", "stats", "delete"}

\* thread t is at label, coming back to the labels of st
At(t, label, st) ==
  [processor EXCEPT !.pc[t] = label, !.stack[t] = st]

\* thread t returns from the method or property it is in
Pop(p, t) ==
  [p EXCEPT !.pc[t] = Head(p.stack[t]), !.stack[t] = Tail(p.stack[t])]

\* the end of a with _processor_lock block entered by thread t
Release(p, t) == [p EXCEPT !.lock = 0]

ProcessorInit ==
  /\ processor = NoProcessor
  /\ retrieval = NoRetrieval
  /\ chunker = NoChunker
  /\ encoder = FALSE
  /\ index = NoneIndex
  /\ documents = <<>>
  /\ metadata = <<>>
  /\ disk = EmptyDisk
  /\ last = Call("new", NoArg, "none", "ok", <<>>)
  /\ ingested = {}
  /\ faults = 0
  /\ NoThreads

NotProcessor ==
  UNCHANGED <<storeVars, last, ingested, faults, threadVars, chunker,
              retrieval>>

\* l.62-74: run(args) starts with self._ensure_initialized(); args pass the
\* handlers' own checks (a query text, a path of an existing file)
Run(t) ==
  \E a \in Actions :
    /\ processor.pc[t] = "idle"
    /\ processor.runs < MaxRuns
    /\ processor' = [processor EXCEPT !.pc[t] = "ensure",
                                      !.stack[t] = <<"dispatch">>,
                                      !.action[t] = a,
                                      !.runs = @ + 1]
    /\ NotProcessor

\* l.35: if not self._initialized
EnsureCheck(t) ==
  /\ processor.pc[t] = "ensure"
  /\ processor' = IF ~processor.initialized
                    THEN [processor EXCEPT !.pc[t] = "ensure_lock"]
                    ELSE Pop(processor, t)
  /\ NotProcessor

\* l.36: with _processor_lock
EnsureLock(t) ==
  /\ processor.pc[t] = "ensure_lock"
  /\ processor.lock = 0
  /\ processor' = [processor EXCEPT !.lock = t, !.pc[t] = "ensure_check2"]
  /\ NotProcessor

\* l.37-40: the second check, _configure_torch(), the flag, the release
EnsureSet(t) ==
  /\ processor.pc[t] = "ensure_check2"
  /\ processor' = Pop(Release([processor EXCEPT !.initialized = TRUE], t), t)
  /\ NotProcessor

\* l.75-86: query reads self.retriever (l.193), the other actions
\* self.vector_store (l.152, 237, 267); both properties start with
\* self._ensure_initialized()
Dispatch(t) ==
  /\ processor.pc[t] = "dispatch"
  /\ processor' = IF processor.action[t] = "query"
                    THEN At(t, "ensure", <<"ret_check", "call">>)
                    ELSE At(t, "ensure", <<"vs_check", "call">>)
  /\ NotProcessor

\* l.56: if self._retriever is None
RetCheck(t) ==
  /\ processor.pc[t] = "ret_check"
  /\ processor' = IF ~processor.retriever
                    THEN [processor EXCEPT !.pc[t] = "ret_lock"]
                    ELSE Pop(processor, t)
  /\ NotProcessor

\* l.57: with _processor_lock
RetLock(t) ==
  /\ processor.pc[t] = "ret_lock"
  /\ processor.lock = 0
  /\ processor' = [processor EXCEPT !.lock = t, !.pc[t] = "ret_check2"]
  /\ NotProcessor

\* l.58-59: the second check; RAGRetriever(self.vector_store) first reads
\* the vector_store property, with the lock held
RetCheck2(t) ==
  /\ processor.pc[t] = "ret_check2"
  /\ processor' =
       IF ~processor.retriever
         THEN At(t, "ensure",
                 <<"vs_check", "ret_assign">> \o processor.stack[t])
         ELSE Pop(Release(processor, t), t)
  /\ NotProcessor

\* l.59-60: the retriever is assigned, the lock released
RetAssign(t) ==
  /\ processor.pc[t] = "ret_assign"
  /\ processor' = Pop(Release([processor EXCEPT !.retriever = TRUE], t), t)
  /\ NotProcessor

\* l.46: if self._vector_store is None
VsCheck(t) ==
  /\ processor.pc[t] = "vs_check"
  /\ processor' = IF ~processor.vector_store
                    THEN [processor EXCEPT !.pc[t] = "vs_lock"]
                    ELSE Pop(processor, t)
  /\ NotProcessor

\* l.47: with _processor_lock; the caller waits while any thread, itself
\* included, owns the lock
VsLock(t) ==
  /\ processor.pc[t] = "vs_lock"
  /\ processor.lock = 0
  /\ processor' = [processor EXCEPT !.lock = t, !.pc[t] = "vs_check2"]
  /\ NotProcessor

\* l.48-50: the second check, VectorStore(), the release
VsCreate(t) ==
  /\ processor.pc[t] = "vs_check2"
  /\ processor' = Pop(Release([processor EXCEPT !.vector_store = TRUE], t), t)
  /\ NotProcessor

\* the handler calls the retriever or the store and run returns its dict
RunReturn(t) ==
  /\ processor.pc[t] = "call"
  /\ processor' = [processor EXCEPT !.pc[t] = "idle", !.stack[t] = <<>>]
  /\ NotProcessor

ProcessorNext ==
  \E t \in Threads :
    \/ Run(t) \/ EnsureCheck(t) \/ EnsureLock(t) \/ EnsureSet(t)
    \/ Dispatch(t)
    \/ RetCheck(t) \/ RetLock(t) \/ RetCheck2(t) \/ RetAssign(t)
    \/ VsCheck(t) \/ VsLock(t) \/ VsCreate(t)
    \/ RunReturn(t)

SpecProcessor == ProcessorInit /\ [][ProcessorNext]_vars

----------------------------------------------------------------------------
(* Properties *)

\* the i-th vector of the index is the embedding of documents[i], and
\* documents, metadata and the index have the same number of entries
StoreInvariant ==
  /\ Len(documents) = Len(metadata)
  /\ Len(metadata) = NTotal(index)
  /\ \A i \in 1 .. Len(documents) :
       i <= NTotal(index) => index.vecs[i] = Normalize(Encode(documents[i]))

HasPath(meta, p) == \E i \in 1 .. Len(meta) : meta[i].file_path = p

AllArtifactsOk(d) ==
  d.index.st = "ok" /\ d.metadata.st = "ok" /\ d.documents.st = "ok"

\* the artifacts a complete save of (idx, meta, docs) leaves
DiskImage(idx, meta, docs) ==
  [index |-> OkArtifact(idx),
   metadata |-> OkArtifact(meta),
   documents |-> OkArtifact(docs)]

\* C1: after every completed operation of a single-threaded run, documents,
\* metadata and the index hold the same number of entries and position i of
\* documents / metadata corresponds to the i-th vector.
C1_StoreInvariant == StoreInvariant

\* C2: a call to add_document or delete_document in which loading the
\* encoder or encoding raises leaves a store that satisfied the invariant
\* still satisfying it.
C2_InvariantSurvivesFailure ==
  [][(/\ StoreInvariant
      /\ last'.op \in {"add", "delete"}
      /\ last'.fault \in {"load", "encode"}) => StoreInvariant']_vars

\* C3: in a run without injected exceptions, add_document of a content that
\* an earlier successful add_document stored under another file_path (no
\* delete in between), the file existing, returns False and leaves the
\* vector count, documents and metadata unchanged.
C3_ContentDedup ==
  [][(/\ faults' = 0
      /\ last'.op = "add"
      /\ last'.arg.bytes # NoFile
      /\ \E e \in ingested : /\ e.content = last'.arg.content
                             /\ e.path # last'.arg.path)
     => (/\ last'.ret = "false"
         /\ documents' = documents
         /\ metadata' = metadata
         /\ NTotal(index') = NTotal(index))]_vars

\* C4: when delete_document(path) returns True no metadata entry carries the
\* path and the store invariant holds; until add_document stores the path
\* again (or the process ends) no operation brings an entry with the path
\* back; and every search result carries a path that metadata holds.
C4_DeleteConsistency ==
  /\ [](/\ (last.op = "delete" /\ last.ret = "true")
            => (~HasPath(metadata, last.arg.path) /\ StoreInvariant)
        /\ last.op = "search"
            => \A i \in 1 .. Len(last.results) :
                 HasPath(metadata, last.results[i].metadata.file_path))
  /\ [][\A p \in Paths :
          (/\ ~HasPath(metadata, p)
           /\ last'.op # "new"
           /\ ~(last'.op = "add" /\ last'.ret = "true" /\ last'.arg.path = p))
          => ~HasPath(metadata', p)]_vars

\* C5: after every add_document or delete_document that returns True, a new
\* VectorStore on the same directory has the same documents, the same
\* metadata and the same number of vectors.
C5_WriteThrough ==
  (last.op \in {"add", "delete"} /\ last.ret = "true")
    => /\ Fresh(disk).documents = documents
       /\ Fresh(disk).metadata = metadata
       /\ NTotal(Fresh(disk).index) = NTotal(index)

\* C6: in a run without injected exceptions, add_document on an empty store
\* of a document whose file exists returns True and the store becomes
\* populated.
C6_AddOnEmptyStore ==
  [][(/\ faults' = 0
      /\ documents = <<>> /\ metadata = <<>>
      /\ last'.op = "add"
      /\ last'.arg.bytes # NoFile)
     => (last'.ret = "true" /\ documents' # <<>>)]_vars

\* C7: a VectorStore constructed on a directory where an artifact is missing
\* or does not parse starts with no documents, no metadata and no vectors.
C7_LoadRecovery ==
  (last.op = "new" /\ ~AllArtifactsOk(disk))
    => (documents = <<>> /\ metadata = <<>> /\ NTotal(index) = 0)

\* C8: every step leaves the store directory as it was or holding the three
\* artifacts of the new in-memory state, never a mixture.
C8_AtomicPersistence ==
  [][disk' = disk \/ disk' = DiskImage(index', metadata', documents')]_vars

C10_SearchResult ==
  (/\ faults = 0
   /\ last.op = "search"
   /\ documents # <<>> /\ StoreInvariant)
    => last.results
         = CollectResults(
             FaissSearch(index.vecs, Normalize(Encode(last.arg.query)),
                         Min(last.arg.k, Len(documents)), {}),
             last.arg.t, documents, metadata).results

\* what lines 282-294 of search compute on store st for the call s: the hits
\* of the index search that pass the threshold, or [] when the loop raises
RankedHits(st, s) ==
  CollectResults(
    FaissSearch(st.index.vecs, Normalize(Encode(s.query)),
                Min(s.k, Len(st.documents)), {}),
    s.t, st.documents, st.metadata).results

\* a result list in rank order for the call s on a store of stored chunks
Ranked(results, s, stored) ==
  /\ Len(results) <= Min(s.k, stored)
  /\ \A i \in 1 .. Len(results) : results[i].score >= s.t
  /\ \A i, j \in 1 .. Len(results) :
       i < j => results[i].score >= results[j].score

\* C11: the list search returned is non-increasing in score, holds no score
\* below score_threshold and has at most min(k, stored) entries; the same
\* is true of the list the index search and the result loop compute on
\* every store, for every call.
C11_RankOrdering ==
  /\ last.op = "search" => Ranked(last.results, last.arg, Len(documents))
  /\ \A s \in Searches : Ranked(RankedHits(Self, s), s, Len(documents))

\* C11 witness: a search for "cat" with k = 3 on a store where the index
\* search ranks two chunks of different scores above the threshold and one
\* below it
C11_Witness ==
  /\ last.op = "search" /\ last.arg.k = 3
  /\ Len(documents) >= 3 /\ StoreInvariant
  /\ Len(RankedHits(Self, last.arg)) = 2
  /\ RankedHits(Self, last.arg)[1].score > RankedHits(Self, last.arg)[2].score

\* C12 as stated: search never raises; on a store without chunks, and when
\* loading the encoder, embedding the query or searching the index raises,
\* it returns [] and documents, metadata and index are what they were.
C12_SearchLeavesStore ==
  [][last'.op = "search"
       => /\ last'.ret = "ok"
          /\ (documents = <<>> \/ last'.fault # "none" \/ ~TorchBound)
               => /\ last'.results = <<>>
                  /\ documents' = documents
                  /\ metadata' = metadata
                  /\ index' = index
                  /\ disk' = disk]_vars

\* C12: search never raises; on a store without chunks, and when loading
\* the encoder, embedding the query or searching the index raises, it
\* returns [] and leaves documents, metadata, the vectors of the index and
\* the artifacts as they were (a missing index may have been created, empty,
\* by the first use of the encoder).
C12_SearchLeavesContents ==
  [][last'.op = "search"
       => /\ last'.ret = "ok"
          /\ (documents = <<>> \/ last'.fault # "none" \/ ~TorchBound)
               => /\ last'.results = <<>>
                  /\ documents' = documents
                  /\ metadata' = metadata
                  /\ index'.vecs = index.vecs
                  /\ NTotal(index') = NTotal(index)
                  /\ disk' = disk]_vars

\* C12 witness: on a populated store loaded from the directory, a search
\* whose model load failed returned []
C12_Witness ==
  /\ last.op = "search" /\ last.fault = "load" /\ last.results = <<>>
  /\ ~encoder
  /\ documents # <<>> /\ NTotal(index) = Len(documents)

\* C13: delete_document of a file_path that no metadata entry carries
\* returns False and leaves documents, metadata, the index, the encoder and
\* the artifacts as they were.
C13_DeleteUnknownPath ==
  [][(last'.op = "delete" /\ ~HasPath(metadata, last'.arg.path))
       => /\ last'.ret = "false"
          /\ documents' = documents
          /\ metadata' = metadata
          /\ index' = index
          /\ encoder' = encoder
          /\ disk' = disk]_vars

\* C13 witness: delete_document returned False for a path that a populated,
\* consistent and saved store does not hold
C13_Witness ==
  /\ last.op = "delete" /\ last.ret = "false" /\ last.fault = "none"
  /\ ~HasPath(metadata, last.arg.path)
  /\ documents # <<>> /\ StoreInvariant
  /\ disk = DiskImage(index, metadata, documents)

EnsureLabels == {"ens_check", "ens_lock", "ens_check2", "ens_load", "ens_index"}

\* C15: whatever the interleaving of the threads' calls, at most one model
\* load is performed on the store, exactly one once a call that uses the
\* encoder has returned; after a load no step performs another one, and
\* _ensure_encoder never replaces an index that exists (it only creates
\* the empty index, once, when there is none).
C15_EncoderOnce ==
  /\ [](/\ loads <= 1
        /\ encoder <=> loads = 1
        /\ \A t \in Threads :
             (pc[t] = "idle" /\ frame[t].op \in {"add", "search"}) => loads = 1)
  /\ [][/\ encoder => loads' = loads
        /\ \A t \in Threads :
             (pc[t] \in EnsureLabels /\ pc'[t] # pc[t])
               => \/ index' = index
                  \/ /\ index.none /\ index' = FlatIndex(<<>>)
                     /\ pc[t] = "ens_index" /\ loads = 1]_vars

\* C15 witness: both threads found the encoder missing at the first check;
\* thread 2 loaded it, and thread 1, which waited for the lock, now holds
\* it and is at the second check
C15_Witness ==
  /\ pc[1] = "ens_check2" /\ model_lock = 1
  /\ encoder /\ loads = 1
  /\ frame[2].op \in {"add", "search"}
  /\ pc[2] \notin EnsureLabels

\* every metadata entry sits at the position of the text of its document
\* (the threads store "cat" under path B and "song" under path A)
Paired ==
  \A i \in 1 .. Len(metadata) :
    /\ i <= Len(documents)
    /\ metadata[i].file_path = "B" => documents[i] = Cat
    /\ metadata[i].file_path = "A" => documents[i] = Song

\* C16: whatever the interleaving of the threads' add_document and
\* delete_document calls, once every call has returned documents, metadata
\* and the index hold the same number of entries, the i-th vector is the
\* embedding of documents[i], and metadata[i] describes documents[i].
C16_MutationsAtomic ==
  (\A t \in Threads : pc[t] = "idle") => (StoreInvariant /\ Paired)

\* result r of the search call with arguments arg is the chunk at some
\* position of the store: its text, its metadata and the score of its vector
FromStore(r, arg, idx, meta, docs) ==
  \E i \in 1 .. Len(docs) :
    /\ i <= Len(meta) /\ i <= NTotal(idx)
    /\ r.content = docs[i] /\ r.metadata = meta[i]
    /\ r.score = Dot(Normalize(Encode(arg.query)), idx.vecs[i])

ChunkerAgrees ==
  chunker.pc = "returned"
    => chunker.chunks
         = chunk_text(chunker.text, chunker.chunk_size, chunker.overlap)

\* C18: for every text and 0 <= overlap < chunk_size, every iteration of
\* the loop of chunk_text leaves the window start strictly greater than it
\* found it, also when the cut was moved back to a sentence terminator.
C18_ChunkerTermination ==
  [][chunker'.iterations > chunker.iterations
       => chunker'.start > chunker.start]_vars

\* the positions of the text that lie in some chunk
Covered == UNION {c.from .. (c.to - 1) : c \in {chunker.spans[k] : k \in 1 .. Len(chunker.spans)}}

\* chunks cs, each glued to what precedes it (acc) after removing a prefix
\* that repeats the end of acc, give text
RECURSIVE Reassembles(_, _, _)
Reassembles(acc, cs, text) ==
  IF cs = <<>> THEN acc = text
  ELSE \E o \in 0 .. Min(Len(acc), Len(Head(cs))) :
         /\ SubSeq(acc, Len(acc) - o + 1, Len(acc)) = SubSeq(Head(cs), 1, o)
         /\ Reassembles(acc \o SubSeq(Head(cs), o + 1, Len(Head(cs))),
                        Tail(cs), text)

Shared(k) ==
  Cardinality((chunker.spans[k].from .. (chunker.spans[k].to - 1))
                \cap (chunker.spans[k + 1].from .. (chunker.spans[k + 1].to - 1)))

\* C20: for 0 <= overlap < chunk_size, the cut of a window is never past
\* start + chunk_size and no chunk is longer than chunk_size; two
\* consecutive chunks share at most overlap positions of the text; and the
\* next window starts at or before the end of the current one, at most
\* overlap positions before it.
C20_ChunkBounds ==
  /\ [](/\ chunker.pc = "cut"
             => chunker.end <= chunker.start + chunker.chunk_size
        /\ \A k \in 1 .. Len(chunker.chunks) :
             /\ Len(chunker.chunks[k]) <= chunker.chunk_size
             /\ chunker.spans[k].end
                  <= chunker.spans[k].start + chunker.chunk_size
        /\ \A k \in 1 .. (Len(chunker.spans) - 1) :
             Shared(k) >= 0 /\ Shared(k) <= chunker.overlap)
  /\ [][chunker'.iterations > chunker.iterations
          => /\ chunker.end - chunker'.start >= 0
             /\ chunker.end - chunker'.start <= chunker.overlap]_vars

\* C20 witness: chunk_text returned three or more chunks with a positive
\* overlap; the first was cut back to a sentence terminator and shares
\* exactly overlap positions with the second
C20_Witness ==
  /\ chunker.pc = "returned"
  /\ Len(chunker.chunks) >= 3
  /\ chunker.overlap > 0
  /\ chunker.spans[1].end < chunker.spans[1].start + chunker.chunk_size
  /\ chunker.spans[1].end < Len(chunker.text)
  /\ Shared(1) = chunker.overlap

\* C21: no chunk that chunk_text holds or returns is the empty string,
\* whatever the text: also when the text fits in one chunk and is returned
\* whole, and when it is empty or only whitespace.
C21_NonEmptyChunks ==
  \A k \in 1 .. Len(chunker.chunks) : chunker.chunks[k] # <<>>

\* C22: the context that retrieve_context returns is no longer than
\* max_context_length, unless exactly one chunk is present and that chunk
\* alone is longer than max_context_length.
C22_ContextBudget ==
  retrieval.pc = "returned" =>
    \/ Len(retrieval.context) <= retrieval.max_context_length
    \/ /\ retrieval.num_chunks = 1
       /\ Len(retrieval.results[1].content) > retrieval.max_context_length

\* the number of characters of the first n chunks that search returned
RECURSIVE ContentLength(_)
ContentLength(n) ==
  IF n = 0 THEN 0
  ELSE ContentLength(n - 1) + Len(retrieval.results[n].content)

\* C23: a finished retrieve_context call has included a prefix of the
\* ranked results: the first result always, even when it alone exceeds
\* max_context_length; every later included result only with the accumulated
\* chunk length within max_context_length; and it stopped at the first result
\* that did not fit, including none after it.
C23_GreedyAssembly ==
  (retrieval.pc = "returned" /\ retrieval.results # <<>>) =>
    LET r == retrieval
        n == r.num_chunks
    IN /\ 1 <= n /\ n <= Len(r.results)
       /\ Len(r.context_parts) = n
       /\ \A j \in 1 .. n :
            r.context_parts[j] = DocumentBlock(j - 1, r.results[j].content)
       /\ r.context = Join(r.context_parts)
       /\ \A j \in 2 .. n : ContentLength(j) <= r.max_context_length
       /\ n < Len(r.results) => ContentLength(n + 1) > r.max_context_length

\* a call that stopped at the second result although the third would fit
C23_Witness ==
  /\ retrieval.pc = "returned"
  /\ Len(retrieval.results) = 3
  /\ retrieval.num_chunks = 1
  /\ Len(retrieval.results[1].content) + Len(retrieval.results[3].content)
       <= retrieval.max_context_length

\* a call whose first result alone exceeds the budget and is included
C23_FirstIncluded ==
  /\ retrieval.pc = "returned"
  /\ retrieval.num_chunks = 1
  /\ Len(retrieval.results[1].content) > retrieval.max_context_length

\* the number of "[Document n] " markers in a context made of chunks that
\* hold no bracket
Blocks(context) == Cardinality({k \in 1 .. Len(context) : context[k] = "["})

\* C24: a finished retrieve_context call returns one source record
\* {file_path, chunk_index, score} per included chunk, in rank order, taken
\* from that chunk's metadata and score: sources, num_chunks and the blocks
\* of the context count the same chunks; when search returned nothing the
\* outcome is the empty context, no source and num_chunks 0.
C24_SourceAttribution ==
  retrieval.pc = "returned" =>
    LET r == retrieval
    IN /\ Len(r.sources) = r.num_chunks
       /\ Blocks(r.context) = r.num_chunks
       /\ r.num_chunks <= Len(r.results)
       /\ \A j \in 1 .. Len(r.sources) :
            LET m == r.results[j].metadata
            IN /\ DOMAIN r.sources[j] = {"file_path", "chunk_index", "score"}
               /\ r.sources[j].score = r.results[j].score
               /\ "file_path" \in DOMAIN m => r.sources[j].file_path = m.file_path
               /\ "chunk_index" \in DOMAIN m =>
                    r.sources[j].chunk_index = m.chunk_index
       /\ \A j \in 1 .. Len(r.sources) - 1 :
            r.sources[j].score >= r.sources[j + 1].score
       /\ r.results = <<>> =>
            r.context = <<>> /\ r.sources = <<>> /\ r.num_chunks = 0

\* a call that included two chunks of different files and left one out
C24_Witness ==
  /\ retrieval.pc = "returned"
  /\ retrieval.num_chunks = 2
  /\ Len(retrieval.results) = 3
  /\ retrieval.sources[1].file_path = "B"
  /\ retrieval.sources[2].file_path = "A"

\* a call whose search returned nothing
C24_Empty ==
  retrieval.pc = "returned" /\ retrieval.results = <<>>

\* C25: in a run without injected exceptions, add_document is rejected as a
\* duplicate only when the same content was stored by an earlier successful
\* add_document (two ingests with different content are never duplicates of
\* each other), and it does not raise because no file exists at file_path.
C25_DedupKeyOverContent ==
  [][(faults' = 0 /\ last'.op = "add") =>
       /\ last'.ret = "false" =>
            \E i \in 1 .. Len(documents) :
              documents[i] \in
                {chunk_text(last'.arg.content, DefaultChunkSize,
                            DefaultOverlap)[k] :
                   k \in 1 .. Len(chunk_text(last'.arg.content,
                                             DefaultChunkSize, DefaultOverlap))}
       /\ (last'.arg.bytes = NoFile /\ ~(encoder /\ index.none)) =>
            last'.ret # "raise"]_vars

\* the positions of docs that a delete of file_path must keep: those whose
\* metadata names another file, and those that have no metadata
KeptPositions(docs, meta, file_path) ==
  {i \in 1 .. Len(docs) : i > Len(meta) \/ meta[i].file_path # file_path}

\* the entries of seq at the positions kept, in their order
Restrict(seq, kept) ==
  LET Nth(j) == CHOOSE i \in kept : Cardinality({x \in kept : x < i}) = j - 1
  IN [j \in 1 .. Cardinality(kept) |-> seq[Nth(j)]]

\* C26: a delete_document(path) that returns True has removed every chunk
\* whose metadata names path and no other: the documents and the metadata of
\* the other files are kept, unmodified and in their order, and the index
\* holds the embeddings of the remaining documents in that order, or the
\* store is empty when none remains.
C26_DeleteFrame ==
  [][(last'.op = "delete" /\ last'.ret = "true") =>
       LET p == last'.arg.path
       IN /\ ~HasPath(metadata', p)
          /\ metadata' =
               Restrict(metadata, KeptPositions(metadata, metadata, p))
          /\ documents' =
               Restrict(documents, KeptPositions(documents, metadata, p))
          /\ IF documents' # <<>>
               THEN index' = FlatIndex(EmbedAll(documents'))
               ELSE NTotal(index') = 0]_vars

C29_ChunkIdUnique ==
  faults = 0 =>
    \A i, j \in 1 .. Len(metadata) :
      i # j => metadata[i].chunk_id # metadata[j].chunk_id

\* C30: when the two threads have each called add_document for the same
\* file and content and both calls have returned, at most one of them
\* returned True and the content's chunk is stored once.
C30_ConcurrentDedup ==
  (\A t \in Threads : /\ pc[t] = "idle"
                      /\ frame[t].op = "add"
                      /\ frame[t].arg = frame[1].arg) =>
    /\ Cardinality({t \in Threads : frame[t].ret = "true"}) <= 1
    /\ Cardinality({i \in 1 .. Len(documents) : documents[i] = Song}) <= 1

\* C28: no caller of run waits for _processor_lock while it owns the lock
\* itself: a wait that can never end, so that run would not return.  In
\* particular the first run({'action': 'query'}) on a new processor comes
\* back, and the retriever property does not take the lock a second time
\* for the vector store.
C28_LazyInitReturns ==
  \A t \in Threads :
    ~(/\ processor.pc[t] \in {"ensure_lock", "ret_lock", "vs_lock"}
      /\ processor.lock = t)

============================================================================
